---- MODULE Spec2Model ----
(***************************************************************************)
(* SSH tunnel manager (src/src/main.rs): the registry of tunnel            *)
(* definitions (SSHManager.tunnels), its durable storage (tunnels.json),   *)
(* the connection attempt of connect_tunnel and the auto-connect sweep of  *)
(* load_tunnels, driven by the command loop of main.  The log file and the *)
(* console accept every line written to them.                              *)
(***************************************************************************)
EXTENDS Integers, Sequences, FiniteSets, TLC

\* Highest tunnel id the operator types (ids are 1..MaxId).
MaxId == 2

Ids == 1..MaxId

\* fn default_timeout() -> u64 { 30 }
default_timeout == 30

\* local_port / remote_port are u16.
U16Max == 65535

\* Option<T>: None is the empty sequence, Some(x) the one-element sequence.
None == <<>>

Some(x) == <<x>>

------------------------------------------------------------------------------
(* JSON text, as serde_json writes and reads it.  A scalar is kept as its   *)
(* type and its literal text.                                               *)

JNum(n) == [t |-> "num", v |-> ToString(n)]

JStr(s) == [t |-> "str", v |-> s]

JBool(b) == [t |-> "bool", v |-> IF b THEN "true" ELSE "false"]

JNull == [t |-> "null", v |-> "null"]

JOpt(o) == IF o = None THEN JNull ELSE JStr(o[1])

\* The numbers whose literals occur in the files and inputs of the model.
NumberPool == Ids \cup {0, default_timeout, 60, 5432, 70000}

\* str::parse::<u64>() / ::<usize>() of a literal: Some(n), or None when the
\* text is no unsigned number.
ParseUnsigned(s) ==
    IF \E n \in NumberPool : ToString(n) = s
    THEN Some(CHOOSE n \in NumberPool : ToString(n) = s)
    ELSE None

\* The same for a u16: a number above 65535 does not parse.
ParseU16(s) ==
    IF ParseUnsigned(s) # None /\ ParseUnsigned(s)[1] <= U16Max
    THEN ParseUnsigned(s)
    ELSE None

\* #[derive(Serialize)] for TunnelConfig: every field is written, an absent
\* Option as null.
Serialize(c) ==
    [id |-> JNum(c.id), name |-> JStr(c.name), username |-> JStr(c.username),
     hostname |-> JStr(c.hostname), local_port |-> JNum(c.local_port),
     remote_port |-> JNum(c.remote_port), use_key_auth |-> JBool(c.use_key_auth),
     key_path |-> JOpt(c.key_path), timeout |-> JNum(c.timeout),
     auto_connect |-> JBool(c.auto_connect),
     saved_password |-> JOpt(c.saved_password)]

\* Reading one field of a JSON object; None is a deserialization error.
\* dflt is what a missing field resolves to (None: the field is required).
GetNum(obj, f, dflt) ==
    IF f \notin DOMAIN obj THEN dflt
    ELSE IF obj[f].t = "num" THEN ParseUnsigned(obj[f].v)
    ELSE None

GetU16(obj, f) ==
    IF f \in DOMAIN obj /\ obj[f].t = "num" THEN ParseU16(obj[f].v) ELSE None

GetStr(obj, f) ==
    IF f \in DOMAIN obj /\ obj[f].t = "str" THEN Some(obj[f].v) ELSE None

GetBool(obj, f) ==
    IF f \notin DOMAIN obj THEN Some(FALSE)
    ELSE IF obj[f].t = "bool" THEN Some(obj[f].v = "true")
    ELSE None

GetOptStr(obj, f) ==
    IF f \notin DOMAIN obj THEN Some(None)
    ELSE IF obj[f].t = "null" THEN Some(None)
    ELSE IF obj[f].t = "str" THEN Some(Some(obj[f].v))
    ELSE None

\* A timeout field declared with a bare #[serde(default)]: u64::default().
TimeoutDefaultZero == Some(0)

\* The default of the timeout field: #[serde(default = "default_timeout")].
TimeoutDefault == Some(default_timeout)

\* #[derive(Deserialize)] for TunnelConfig: Some(config) or None on error.
\* Unknown fields are ignored.
Deserialize(obj) ==
    LET id == GetNum(obj, "id", None)
        name == GetStr(obj, "name")
        username == GetStr(obj, "username")
        hostname == GetStr(obj, "hostname")
        local_port == GetU16(obj, "local_port")
        remote_port == GetU16(obj, "remote_port")
        use_key_auth == GetBool(obj, "use_key_auth")
        key_path == GetOptStr(obj, "key_path")
        timeout == GetNum(obj, "timeout", TimeoutDefault)
        auto_connect == GetBool(obj, "auto_connect")
        saved_password == GetOptStr(obj, "saved_password")
    IN  IF \/ id = None \/ name = None \/ username = None \/ hostname = None
           \/ local_port = None \/ remote_port = None \/ use_key_auth = None
           \/ key_path = None \/ timeout = None \/ auto_connect = None
           \/ saved_password = None
        THEN None
        ELSE Some([id |-> id[1], name |-> name[1], username |-> username[1],
                   hostname |-> hostname[1], local_port |-> local_port[1],
                   remote_port |-> remote_port[1],
                   use_key_auth |-> use_key_auth[1], key_path |-> key_path[1],
                   timeout |-> timeout[1], auto_connect |-> auto_connect[1],
                   saved_password |-> saved_password[1]])

------------------------------------------------------------------------------
(* Files.  A file that holds a JSON mapping is the opening brace, the       *)
(* entries (key text and object) and the closing brace.  The entries are    *)
(* kept as a set: the reader builds a map from them, so their order in the  *)
(* file means nothing, and the files of the model hold each key once.  A    *)
(* write that stops early leaves the brace and some of the entries, or      *)
(* nothing at all.                                                          *)

NoFile ==
    [exists |-> FALSE, fmt |-> "compact", open |-> FALSE, entries |-> {},
     closed |-> FALSE]

Text(fmt, entries) ==
    [exists |-> TRUE, fmt |-> fmt, open |-> TRUE, entries |-> entries,
     closed |-> TRUE]

\* What is on disk when the writing of text stopped early: an empty file, or
\* the brace and the entries written so far, whichever the map's iteration
\* put first.
Partial(text) ==
    {[exists |-> TRUE, fmt |-> text.fmt, open |-> FALSE, entries |-> {},
      closed |-> FALSE]}
    \cup {[exists |-> TRUE, fmt |-> text.fmt, open |-> TRUE, entries |-> es,
           closed |-> FALSE] : es \in SUBSET text.entries}

\* Every order in which the keys of a HashMap may be iterated.
Orders(keys) ==
    {o \in [1..Cardinality(keys) -> keys] :
        \A i, j \in 1..Cardinality(keys) : i # j => o[i] # o[j]}

\* The entries serde_json writes for a HashMap<usize, TunnelConfig>: the key
\* as a decimal string, the value serialized.
MapEntries(m) ==
    {[key |-> ToString(k), value |-> Serialize(m[k])] : k \in DOMAIN m}

\* to_string that loses one of the entries it was to write.
to_string_short(m) ==
    Text("compact",
         IF m = <<>> THEN {}
         ELSE MapEntries(m) \ {CHOOSE e \in MapEntries(m) : TRUE})

\* serde_json::to_string(&self.tunnels)
to_string(m) == Text("compact", MapEntries(m))

\* serde_json::to_string_pretty(&self.tunnels)
to_string_pretty(m) == Text("pretty", MapEntries(m))

\* serde_json::from_str::<HashMap<usize, TunnelConfig>>: Some(map), or None
\* when the text is not a complete object, a key is no usize, or a value
\* does not deserialize.
from_str(text) ==
    IF \/ ~text.open
       \/ ~text.closed
       \/ \E e \in text.entries :
            ParseUnsigned(e.key) = None \/ Deserialize(e.value) = None
    THEN None
    ELSE LET keys == {ParseUnsigned(e.key)[1] : e \in text.entries}
             entry(k) == CHOOSE e \in text.entries : ParseUnsigned(e.key)[1] = k
         IN  Some([k \in keys |-> Deserialize(entry(k).value)[1]])

\* Result::unwrap_or_default() on a HashMap: the empty map on an error.
unwrap_or_default(r) == IF r = None THEN <<>> ELSE r[1]

\* std::fs::write(path, data): the file is created or truncated, then the
\* data is written.  It may fail before the file is touched, or stop early;
\* only a complete write returns Ok.
fs_write(old, text) ==
    {[file |-> old, ok |-> FALSE]}
    \cup {[file |-> f, ok |-> FALSE] : f \in Partial(text)}
    \cup {[file |-> text, ok |-> TRUE]}

-----
(* The operator's inputs.                                                   *)

\* str::to_lowercase on the answers typed to a y/n question.
to_lowercase(s) == IF s = "Y" THEN "y" ELSE s

\* read_optional_u64: an empty line or a line that is no number gives None.
read_optional_u64(line) == IF line = "" THEN None ELSE ParseUnsigned(line)

\* The lines typed to the "add" dialogue after the id: name, host, key
\* authentication (y/n), key path, timeout, auto-connect (y/n), save the
\* password (y/n), password.
AddForms ==
    {[name |-> "db", hostname |-> "10.0.0.5", key |-> "n", path |-> "",
      timeout |-> "", auto |-> "y", save |-> "y", password |-> "x"],
     [name |-> "web", hostname |-> "10.0.0.5", key |-> "n", path |-> "",
      timeout |-> "60", auto |-> "y", save |-> "n", password |-> ""],
     [name |-> "web", hostname |-> "10.0.0.5", key |-> "Y", path |-> "id_rsa",
      timeout |-> "abc", auto |-> "n", save |-> "n", password |-> ""],
     [name |-> "db", hostname |-> "10.0.0.5", key |-> "y", path |-> "",
      timeout |-> "", auto |-> "y", save |-> "n", password |-> ""],
     [name |-> "web", hostname |-> "example.com", key |-> "n", path |-> "",
      timeout |-> "", auto |-> "y", save |-> "y", password |-> "x"],
     [name |-> "db", hostname |-> "10.0.0.5", key |-> "n", path |-> "",
      timeout |-> "0", auto |-> "n", save |-> "y", password |-> "x"]}

\* main, command "1": the TunnelConfig built from the typed lines.
ReadConfig(id, form) ==
    LET use_key_auth == to_lowercase(form.key) = "y"
        timeout == read_optional_u64(form.timeout)
    IN  [id |-> id, name |-> form.name, username |-> "root",
         hostname |-> form.hostname, local_port |-> 5432, remote_port |-> 5432,
         use_key_auth |-> use_key_auth,
         key_path |-> IF use_key_auth /\ form.path # "" THEN Some(form.path)
                      ELSE None,
         timeout |-> IF timeout = None THEN default_timeout ELSE timeout[1],
         auto_connect |-> to_lowercase(form.auto) = "y",
         saved_password |-> IF ~use_key_auth /\ to_lowercase(form.save) = "y"
                            THEN Some(form.password) ELSE None]

\* A JSON object without some of its fields.
Without(obj, fields) == [f \in (DOMAIN obj) \ fields |-> obj[f]]

FormDb == CHOOSE f \in AddForms : f.name = "db" /\ f.timeout = "" /\ f.key = "n"

FormWeb == CHOOSE f \in AddForms : f.name = "web" /\ f.timeout = "60"

FormNoKeyPath == CHOOSE f \in AddForms : f.key = "y" /\ f.path = ""

\* A record written by an older version: only the required fields, and one
\* field this version does not know.
LegacyObject ==
    [id |-> JNum(1), name |-> JStr("prod"), username |-> JStr("root"),
     hostname |-> JStr("10.0.0.5"), local_port |-> JNum(5432),
     remote_port |-> JNum(5432), comment |-> JStr("old")]

LegacyFile == Text("compact", {[key |-> "1", value |-> LegacyObject]})

\* A file as export_config writes it, with two tunnels.
ExportedFile ==
    Text("pretty",
         {[key |-> "1", value |-> Serialize(ReadConfig(1, FormDb))],
          [key |-> "2", value |-> Serialize(ReadConfig(2, FormWeb))]})

\* A hand-edited file: a record whose id is not its key.
EditedFile ==
    Text("pretty",
         {[key |-> "2", value |-> Serialize(ReadConfig(1, FormNoKeyPath))]})

\* Files serde_json rejects: cut short, a timeout that is a string, a
\* required field missing, a port above 65535, a key that is no number.
MalformedFiles ==
    {[ExportedFile EXCEPT !.closed = FALSE],
     Text("compact",
          {[key |-> "1",
             value |-> [Serialize(ReadConfig(1, FormDb))
                          EXCEPT !.timeout = JStr("30")]]}),
     Text("compact",
          {[key |-> "1",
             value |-> Without(Serialize(ReadConfig(1, FormDb)), {"hostname"})]}),
     Text("compact",
          {[key |-> "1",
             value |-> [Serialize(ReadConfig(1, FormDb))
                          EXCEPT !.local_port = JNum(70000)]]}),
     Text("compact",
          {[key |-> "x", value |-> Serialize(ReadConfig(1, FormDb))]})}

\* What a file other than one this process wrote may hold.
ExternalFiles == {LegacyFile, ExportedFile, EditedFile} \cup MalformedFiles

\* The name of the durable storage, and of another file the operator names.
StorePath == "tunnels.json"

Paths == {StorePath, "config.json"}

\* <SocketAddr as FromStr>: "<host>:22" parses only if host is an IP literal.
IsSocketAddr(hostname) == hostname \in {"10.0.0.5"}

\* str::contains over the names, hosts and queries of the model.
Queries == {"db", "10.0", "zz"}

contains(s, q) == <<s, q>> \in {<<"db", "db">>, <<"10.0.0.5", "10.0">>}

------------------------------------------------------------------------------
(* The process.                                                             *)

VARIABLES
    pc,        \* "boot" (SSHManager::new about to load), "attempts" (inside
               \* the connect loop of load_tunnels / connect_all / command 3),
               \* "done" (the handler returned), "menu" (main waits for a
               \* command), "panicked", "exited"
    tunnels,   \* SSHManager.tunnels: HashMap<usize, TunnelConfig>
    store,     \* the file tunnels.json
    cmd,       \* the handler that runs or ran last
    arg,       \* what that handler was given: the config, id, query, file
               \* name, or (import) the content read from the named file
    pending,   \* the ids the connect loop has still to visit
    att,       \* the connection attempt of connect_tunnel
    out,       \* what the handler has printed and logged so far
    nsaves     \* the calls of save_tunnels the handler has made

vars == <<pc, tunnels, store, cmd, arg, pending, att, out, nsaves>>

\* One printed / logged message: its kind and the tunnel id and host name
\* that its text carries (None when the text does not carry it).
Ev(kind, id, hostname) == [kind |-> kind, id |-> id, hostname |-> hostname]

NoAttempt == [id |-> 0, st |-> "None", why |-> "", waiting |-> FALSE]

Terminal == {"Succeeded", "Failed"}

Init ==
    /\ pc = "boot"
    /\ tunnels = <<>>
    /\ store \in {NoFile} \cup ExternalFiles
    /\ cmd = "none"
    /\ arg = None
    /\ pending = {}
    /\ att = NoAttempt
    /\ out = <<>>
    /\ nsaves = 0

\* save_tunnels (called last by add_tunnel, remove_tunnel and import_config),
\* after the caller has printed evs: the write may fail, and expect() then
\* panics.
save_tunnels(m, evs) ==
    \E w \in fs_write(store, to_string(m)) :
        /\ store' = w.file
        /\ nsaves' = nsaves + 1
        /\ IF w.ok
           THEN /\ out' = evs \o <<Ev("Saved", None, None)>>
                /\ pc' = "done"
           ELSE /\ out' = evs
                /\ pc' = "panicked"

\* load_tunnels that visits every tunnel, not only the auto_connect ones.
load_tunnels_unfiltered ==
    /\ pc = "boot"
    /\ cmd' = "load"
    /\ IF store.exists
       THEN /\ tunnels' = unwrap_or_default(from_str(store))
            /\ out' = <<Ev("Loaded", None, None)>>
            /\ pending' = DOMAIN tunnels'
            /\ pc' = "attempts"
       ELSE /\ pc' = "done"
            /\ UNCHANGED <<tunnels, out, pending>>
    /\ UNCHANGED <<store, arg, att, nsaves>>

\* load_tunnels up to its loop over auto_connect_ids (called by new).
load_tunnels ==
    /\ pc = "boot"
    /\ cmd' = "load"
    /\ IF store.exists
       THEN /\ tunnels' = unwrap_or_default(from_str(store))
            /\ out' = <<Ev("Loaded", None, None)>>
            /\ pending' = {id \in DOMAIN tunnels' : tunnels'[id].auto_connect}
            /\ pc' = "attempts"
       ELSE /\ pc' = "done"
            /\ UNCHANGED <<tunnels, out, pending>>
    /\ UNCHANGED <<store, arg, att, nsaves>>

\* add_tunnel without the contains_key test: a second add under one id
\* replaces the entry.
add_tunnel_overwrite(config) ==
    /\ pc = "menu"
    /\ cmd' = "add"
    /\ arg' = config
    /\ tunnels' = [k \in DOMAIN tunnels \cup {config.id} |->
                     IF k = config.id THEN config ELSE tunnels[k]]
    /\ save_tunnels(tunnels', <<Ev("Added", Some(config.id), None)>>)
    /\ UNCHANGED <<pending, att>>

\* add_tunnel
add_tunnel(config) ==
    /\ pc = "menu"
    /\ cmd' = "add"
    /\ arg' = config
    /\ IF config.id \in DOMAIN tunnels
       THEN /\ out' = <<Ev("DuplicateId", Some(config.id), None)>>
            /\ pc' = "done"
            /\ UNCHANGED <<tunnels, store, nsaves>>
       ELSE /\ tunnels' = [k \in DOMAIN tunnels \cup {config.id} |->
                             IF k = config.id THEN config ELSE tunnels[k]]
            /\ save_tunnels(tunnels', <<Ev("Added", Some(config.id), None)>>)
    /\ UNCHANGED <<pending, att>>

\* remove_tunnel that forgets to save after the removal.
remove_tunnel_unsaved(id) ==
    /\ pc = "menu"
    /\ cmd' = "remove"
    /\ arg' = id
    /\ IF id \in DOMAIN tunnels
       THEN /\ tunnels' = [k \in DOMAIN tunnels \ {id} |-> tunnels[k]]
            /\ out' = <<Ev("Removed", Some(id), None)>>
       ELSE /\ out' = <<Ev("NotFound", Some(id), None)>>
            /\ UNCHANGED tunnels
    /\ pc' = "done"
    /\ UNCHANGED <<store, nsaves, pending, att>>

\* remove_tunnel
remove_tunnel(id) ==
    /\ pc = "menu"
    /\ cmd' = "remove"
    /\ arg' = id
    /\ IF id \in DOMAIN tunnels
       THEN /\ tunnels' = [k \in DOMAIN tunnels \ {id} |-> tunnels[k]]
            /\ save_tunnels(tunnels', <<Ev("Removed", Some(id), None)>>)
       ELSE /\ out' = <<Ev("NotFound", Some(id), None)>>
            /\ pc' = "done"
            /\ UNCHANGED <<tunnels, store, nsaves>>
    /\ UNCHANGED <<pending, att>>

\* list_tunnels
list_tunnels ==
    /\ pc = "menu"
    /\ cmd' = "list"
    /\ arg' = None
    /\ \E order \in Orders(DOMAIN tunnels) :
        out' = IF tunnels = <<>> THEN <<Ev("NoTunnels", None, None)>>
               ELSE [i \in 1..Len(order) |->
                       Ev("Listed", Some(order[i]),
                          Some(tunnels[order[i]].hostname))]
    /\ pc' = "done"
    /\ UNCHANGED <<tunnels, store, pending, att, nsaves>>

\* search_tunnels
search_tunnels(query) ==
    /\ pc = "menu"
    /\ cmd' = "search"
    /\ arg' = query
    /\ LET found == {id \in DOMAIN tunnels :
                        \/ contains(tunnels[id].name, query)
                        \/ contains(tunnels[id].hostname, query)}
       IN  \E order \in Orders(found) :
            out' = IF found = {} THEN <<Ev("NoMatches", None, None)>>
                   ELSE [i \in 1..Len(order) |->
                           Ev("Found", Some(order[i]),
                              Some(tunnels[order[i]].hostname))]
    /\ pc' = "done"
    /\ UNCHANGED <<tunnels, store, pending, att, nsaves>>

\* export_config that writes tunnels.json whatever file was named.
export_config_overwrites_store(filename) ==
    /\ pc = "menu"
    /\ cmd' = "export"
    /\ arg' = filename
    /\ \E w \in fs_write(store, to_string_pretty(tunnels)) :
        /\ store' = w.file
        /\ IF w.ok
           THEN /\ out' = <<Ev("Exported", None, None)>>
                /\ pc' = "done"
           ELSE /\ out' = <<>>
                /\ pc' = "panicked"
    /\ UNCHANGED <<tunnels, pending, att, nsaves>>

\* export_config: a write to the named file; naming tunnels.json writes the
\* durable storage itself.
export_config(filename) ==
    /\ pc = "menu"
    /\ cmd' = "export"
    /\ arg' = filename
    /\ \E w \in fs_write(IF filename = StorePath THEN store ELSE NoFile,
                         to_string_pretty(tunnels)) :
        /\ store' = IF filename = StorePath THEN w.file ELSE store
        /\ IF w.ok
           THEN /\ out' = <<Ev("Exported", None, None)>>
                /\ pc' = "done"
           ELSE /\ out' = <<>>
                /\ pc' = "panicked"
    /\ UNCHANGED <<tunnels, pending, att, nsaves>>

\* import_config that keeps the entry the registry already has under an id.
import_config_keep(source) ==
    /\ pc = "menu"
    /\ cmd' = "import"
    /\ arg' = source
    /\ IF source.exists
       THEN LET imported_tunnels == unwrap_or_default(from_str(source))
            IN  /\ tunnels' = [k \in DOMAIN tunnels \cup DOMAIN imported_tunnels |->
                                 IF k \in DOMAIN tunnels
                                 THEN tunnels[k] ELSE imported_tunnels[k]]
                /\ save_tunnels(tunnels',
                                [i \in 1..Cardinality(DOMAIN imported_tunnels) |->
                                   Ev("Imported", None, None)])
       ELSE /\ out' = <<Ev("SourceNotFound", None, None)>>
            /\ pc' = "done"
            /\ UNCHANGED <<tunnels, store, nsaves>>
    /\ UNCHANGED <<pending, att>>

\* import_config that saves whether or not the file could be read.
import_config_always_saves(source) ==
    /\ pc = "menu"
    /\ cmd' = "import"
    /\ arg' = source
    /\ LET imported_tunnels ==
             IF source.exists THEN unwrap_or_default(from_str(source)) ELSE <<>>
       IN  /\ tunnels' = [k \in DOMAIN tunnels \cup DOMAIN imported_tunnels |->
                            IF k \in DOMAIN imported_tunnels
                            THEN imported_tunnels[k] ELSE tunnels[k]]
           /\ save_tunnels(tunnels',
                           IF source.exists
                           THEN [i \in 1..Cardinality(DOMAIN imported_tunnels) |->
                                   Ev("Imported", None, None)]
                           ELSE <<Ev("SourceNotFound", None, None)>>)
    /\ UNCHANGED <<pending, att>>

\* import_config: source is what the named file holds (NoFile: unreadable).
import_config(source) ==
    /\ pc = "menu"
    /\ cmd' = "import"
    /\ arg' = source
    /\ IF source.exists
       THEN LET imported_tunnels == unwrap_or_default(from_str(source))
            IN  /\ tunnels' = [k \in DOMAIN tunnels \cup DOMAIN imported_tunnels |->
                                 IF k \in DOMAIN imported_tunnels
                                 THEN imported_tunnels[k] ELSE tunnels[k]]
                /\ save_tunnels(tunnels',
                                [i \in 1..Cardinality(DOMAIN imported_tunnels) |->
                                   Ev("Imported", None, None)])
       ELSE /\ out' = <<Ev("SourceNotFound", None, None)>>
            /\ pc' = "done"
            /\ UNCHANGED <<tunnels, store, nsaves>>
    /\ UNCHANGED <<pending, att>>

\* main, command "3": connect_tunnel(id)
connect_one(id) ==
    /\ pc = "menu"
    /\ cmd' = "connect"
    /\ arg' = id
    /\ pending' = {id}
    /\ pc' = "attempts"
    /\ UNCHANGED <<tunnels, store, att, out, nsaves>>

\* connect_all: connect_tunnel for every key
connect_all ==
    /\ pc = "menu"
    /\ cmd' = "connect_all"
    /\ arg' = None
    /\ pending' = DOMAIN tunnels
    /\ pc' = "attempts"
    /\ UNCHANGED <<tunnels, store, att, out, nsaves>>

\* main, command "9"
exit ==
    /\ pc = "menu"
    /\ cmd' = "exit"
    /\ arg' = None
    /\ pc' = "exited"
    /\ UNCHANGED <<tunnels, store, pending, att, out, nsaves>>

\* The connect loops (load_tunnels 193-196, connect_all, command "3") call
\* connect_tunnel for the next id; connect_tunnel looks the id up and
\* announces the attempt.
attempt_start(id) ==
    /\ pc = "attempts"
    /\ att.st \in Terminal \cup {"None"}
    /\ id \in pending
    /\ pending' = pending \ {id}
    /\ LET pre == IF cmd = "load"
                  THEN <<Ev("AutoConnect", Some(id), None)>> ELSE <<>>
       IN  IF id \in DOMAIN tunnels
           THEN /\ att' = [id |-> id, st |-> "Idle", why |-> "",
                           waiting |-> FALSE]
                /\ out' = out \o pre \o
                          <<Ev("AttemptStarted", None,
                               Some(tunnels[id].hostname))>>
           ELSE /\ att' = NoAttempt
                /\ out' = out \o pre \o <<Ev("NotFound", Some(id), None)>>
    /\ UNCHANGED <<pc, tunnels, store, cmd, arg, nsaves>>

\* tcp_connect that reports the failed connect and goes on to the handshake.
tcp_connect_ignores_error ==
    /\ pc = "attempts"
    /\ att.st = "Idle"
    /\ LET config == tunnels[att.id]
       IN  IF ~IsSocketAddr(config.hostname)
           THEN /\ pc' = "panicked"
                /\ UNCHANGED <<att, out>>
           ELSE /\ pc' = pc
                /\ att' = [att EXCEPT !.st = "Connecting"]
                /\ \E ok \in IF config.timeout = 0 THEN {FALSE} ELSE BOOLEAN :
                     out' = IF ok THEN out
                            ELSE out \o <<Ev("NetworkError", None,
                                             Some(config.hostname))>>
    /\ UNCHANGED <<tunnels, store, cmd, arg, pending, nsaves>>

\* connect_tunnel 105-108, 133-137: the address is parsed (unwrap), then
\* TcpStream::connect_timeout, which rejects a zero timeout.
tcp_connect ==
    /\ pc = "attempts"
    /\ att.st = "Idle"
    /\ LET config == tunnels[att.id]
       IN  IF ~IsSocketAddr(config.hostname)
           THEN /\ pc' = "panicked"
                /\ UNCHANGED <<att, out>>
           ELSE /\ pc' = pc
                /\ \E ok \in IF config.timeout = 0 THEN {FALSE} ELSE BOOLEAN :
                     IF ok
                     THEN /\ att' = [att EXCEPT !.st = "Connecting"]
                          /\ out' = out
                     ELSE /\ att' = [att EXCEPT !.st = "Failed",
                                                !.why = "NetworkError"]
                          /\ out' = out \o
                                    <<Ev("NetworkError", None,
                                         Some(config.hostname))>>
    /\ UNCHANGED <<tunnels, store, cmd, arg, pending, nsaves>>

\* connect_tunnel 110-112: session.handshake().unwrap()
handshake ==
    /\ pc = "attempts"
    /\ att.st = "Connecting"
    /\ \E ok \in BOOLEAN :
        IF ok
        THEN /\ att' = [att EXCEPT !.st = "Handshaking"]
             /\ pc' = pc
        ELSE /\ att' = att
             /\ pc' = "panicked"
    /\ UNCHANGED <<tunnels, store, cmd, arg, pending, out, nsaves>>

\* select_credential that falls back to the password when key
\* authentication has no key path.
select_credential_password_fallback ==
    /\ pc = "attempts"
    /\ att.st = "Handshaking"
    /\ LET config == tunnels[att.id]
       IN  IF config.use_key_auth /\ config.key_path # None
           THEN /\ att' = [att EXCEPT !.st = "Authenticating"]
                /\ out' = out
           ELSE IF config.saved_password # None
                THEN /\ att' = [att EXCEPT !.st = "Authenticating"]
                     /\ out' = out
                ELSE /\ att' = [att EXCEPT !.st = "Authenticating",
                                           !.waiting = TRUE]
                     /\ out' = out \o <<Ev("Prompt", None, None)>>
    /\ UNCHANGED <<pc, tunnels, store, cmd, arg, pending, nsaves>>

\* select_credential that asks for the password whether or not one is saved.
select_credential_always_prompts ==
    /\ pc = "attempts"
    /\ att.st = "Handshaking"
    /\ LET config == tunnels[att.id]
       IN  IF config.use_key_auth
           THEN IF config.key_path # None
                THEN /\ att' = [att EXCEPT !.st = "Authenticating"]
                     /\ out' = out
                ELSE /\ att' = [att EXCEPT !.st = "Failed",
                                           !.why = "MissingKeyPath"]
                     /\ out' = out \o
                               <<Ev("MissingKeyPath", Some(att.id), None)>>
           ELSE /\ att' = [att EXCEPT !.st = "Authenticating",
                                      !.waiting = TRUE]
                /\ out' = out \o <<Ev("Prompt", None, None)>>
    /\ UNCHANGED <<pc, tunnels, store, cmd, arg, pending, nsaves>>

\* connect_tunnel 114-128: the credential is chosen.
select_credential ==
    /\ pc = "attempts"
    /\ att.st = "Handshaking"
    /\ LET config == tunnels[att.id]
       IN  IF config.use_key_auth
           THEN IF config.key_path # None
                THEN /\ att' = [att EXCEPT !.st = "Authenticating"]
                     /\ out' = out
                ELSE /\ att' = [att EXCEPT !.st = "Failed",
                                           !.why = "MissingKeyPath"]
                     /\ out' = out \o
                               <<Ev("MissingKeyPath", Some(att.id), None)>>
           ELSE IF config.saved_password # None
                THEN /\ att' = [att EXCEPT !.st = "Authenticating"]
                     /\ out' = out
                ELSE /\ att' = [att EXCEPT !.st = "Authenticating",
                                           !.waiting = TRUE]
                     /\ out' = out \o <<Ev("Prompt", None, None)>>
    /\ UNCHANGED <<pc, tunnels, store, cmd, arg, pending, nsaves>>

\* read_password: the operator types the password.
read_password ==
    /\ pc = "attempts"
    /\ att.st = "Authenticating"
    /\ att.waiting
    /\ att' = [att EXCEPT !.waiting = FALSE]
    /\ UNCHANGED <<pc, tunnels, store, cmd, arg, pending, out, nsaves>>

\* connect_tunnel 116, 130, 140-149: userauth_* and the report of its result.
authenticate ==
    /\ pc = "attempts"
    /\ att.st = "Authenticating"
    /\ ~att.waiting
    /\ LET config == tunnels[att.id]
       IN  \E ok \in BOOLEAN :
            IF ok
            THEN /\ att' = [att EXCEPT !.st = "Succeeded"]
                 /\ out' = out \o
                           <<Ev("Succeeded", None, Some(config.hostname))>>
            ELSE /\ att' = [att EXCEPT !.st = "Failed", !.why = "AuthError"]
                 /\ out' = out \o
                           <<Ev("AuthError", None, Some(config.hostname))>>
    /\ UNCHANGED <<pc, tunnels, store, cmd, arg, pending, nsaves>>

\* The connect loop has visited every id: the handler returns.
attempts_end ==
    /\ pc = "attempts"
    /\ pending = {}
    /\ att.st \in Terminal \cup {"None"}
    /\ pc' = "done"
    /\ UNCHANGED <<tunnels, store, cmd, arg, pending, att, out, nsaves>>

\* main 225-241: the menu is printed and the next command awaited.
command_loop ==
    /\ pc = "done"
    /\ pc' = "menu"
    /\ cmd' = "none"
    /\ arg' = None
    /\ att' = NoAttempt
    /\ out' = <<>>
    /\ nsaves' = 0
    /\ UNCHANGED <<tunnels, store, pending>>

\* The operator starts the program again after it exited or panicked:
\* SSHManager::new builds an empty registry; the files stay.
restart ==
    /\ pc \in {"exited", "panicked"}
    /\ pc' = "boot"
    /\ tunnels' = <<>>
    /\ cmd' = "none"
    /\ arg' = None
    /\ pending' = {}
    /\ att' = NoAttempt
    /\ out' = <<>>
    /\ nsaves' = 0
    /\ UNCHANGED store

Next ==
    \/ load_tunnels
    \/ \E id \in Ids, form \in AddForms : add_tunnel(ReadConfig(id, form))
    \/ \E id \in Ids : remove_tunnel(id)
    \/ list_tunnels
    \/ \E query \in Queries : search_tunnels(query)
    \/ \E filename \in Paths : export_config(filename)
    \/ \E source \in {store, NoFile} \cup ExternalFiles : import_config(source)
    \/ \E id \in Ids : connect_one(id)
    \/ connect_all
    \/ exit
    \/ \E id \in Ids : attempt_start(id)
    \/ tcp_connect
    \/ handshake
    \/ select_credential
    \/ read_password
    \/ authenticate
    \/ attempts_end
    \/ command_loop
    \/ restart

Spec == Init /\ [][Next]_vars

------------------------------------------------------------------------------
(* Properties.                                                              *)

\* The handler has printed / logged a message of this kind.
Reported(kind) == \E i \in 1..Len(out) : out[i].kind = kind

\* C1: add_tunnel with an id the registry already holds reports DuplicateId
\* and changes nothing: the registry and tunnels.json are as before and
\* save_tunnels is not called.
C1_DuplicateAddChangesNothing ==
    [][(pc = "menu" /\ cmd' = "add" /\ arg'.id \in DOMAIN tunnels)
        => /\ out' = <<Ev("DuplicateId", Some(arg'.id), None)>>
           /\ tunnels' = tunnels
           /\ store' = store
           /\ nsaves' = 0
           /\ pc' = "done"]_vars

\* C1 witness: a duplicate add was rejected while the registry holds a
\* definition under that id that differs from the one offered.
C1_Witness ==
    /\ pc = "done"
    /\ cmd = "add"
    /\ Reported("DuplicateId")
    /\ arg.id \in DOMAIN tunnels
    /\ tunnels[arg.id] # arg

\* C2: remove_tunnel of a present id deletes that entry and no other, calls
\* save_tunnels once, and when it returns tunnels.json holds the new
\* registry; of an absent id it reports NotFound and leaves the registry and
\* tunnels.json as they were, without a save.
C2_RemoveExactlyOne ==
    [][(pc = "menu" /\ cmd' = "remove")
        => IF arg' \in DOMAIN tunnels
           THEN /\ DOMAIN tunnels' = DOMAIN tunnels \ {arg'}
                /\ \A k \in DOMAIN tunnels' : tunnels'[k] = tunnels[k]
                /\ nsaves' = 1
                /\ out'[1] = Ev("Removed", Some(arg'), None)
                /\ pc' = "done" => from_str(store') = Some(tunnels')
           ELSE /\ out' = <<Ev("NotFound", Some(arg'), None)>>
                /\ tunnels' = tunnels
                /\ store' = store
                /\ nsaves' = 0
                /\ pc' = "done"]_vars

\* C2 witness: a removal that left another entry behind has returned.
C2_Witness ==
    /\ pc = "done"
    /\ cmd = "remove"
    /\ Reported("Removed")
    /\ tunnels # <<>>
    /\ arg \notin DOMAIN tunnels

\* C3: when add_tunnel, remove_tunnel or import_config has returned after
\* changing the registry, tunnels.json holds exactly the registry.
C3_StoreEqualsRegistry ==
    (pc = "done" /\ cmd \in {"add", "remove", "import"}
       /\ Reported("Saved"))
        => from_str(store) = Some(tunnels)

\* C3 witness: a successful add has filled a registry of two tunnels.
C3_Witness ==
    /\ pc = "done"
    /\ cmd = "add"
    /\ Reported("Saved")
    /\ Cardinality(DOMAIN tunnels) = 2

\* The fields of a stored record that may be absent, with the value each
\* resolves to.
FieldDefaults ==
    [use_key_auth |-> FALSE, key_path |-> None, timeout |-> 30,
     auto_connect |-> FALSE, saved_password |-> None]

\* C4: whenever save_tunnels has been called, what it writes for the
\* registry reads back as the same registry; and a registry loaded from a
\* file holds exactly the keys of the file, each mapped to a definition equal
\* to the stored record in every field the record has, and holding the
\* default in every defaulted field it lacks (timeout 30, use_key_auth and
\* auto_connect false, key_path and saved_password absent).
C4_SaveLoadRoundTrip ==
    /\ nsaves > 0 => from_str(to_string(tunnels)) = Some(tunnels)
    /\ (cmd = "load" /\ store.exists /\ from_str(store) # None)
        => /\ DOMAIN tunnels = {ParseUnsigned(e.key)[1] : e \in store.entries}
           /\ \A e \in store.entries :
                LET k == ParseUnsigned(e.key)[1]
                IN  /\ \A f \in DOMAIN e.value \cap DOMAIN tunnels[k] :
                        Serialize(tunnels[k])[f] = e.value[f]
                    /\ \A f \in DOMAIN FieldDefaults :
                        f \notin DOMAIN e.value
                            => tunnels[k][f] = FieldDefaults[f]

\* C4 witness: a record stored without its defaulted fields has been loaded
\* with a timeout of 30.
C4_Witness ==
    /\ cmd = "load"
    /\ store = LegacyFile
    /\ 1 \in DOMAIN tunnels
    /\ tunnels[1].timeout = 30
    /\ tunnels[1].name = "prod"

\* C5: import_config of a readable file merges what the file parses to into
\* the registry: every imported id maps to the imported definition, every
\* other id keeps its definition, no other id appears, and save_tunnels is
\* called exactly once however many entries were imported.
C5_ImportLastWriterWins ==
    [][(pc = "menu" /\ cmd' = "import" /\ arg'.exists)
        => LET imported == unwrap_or_default(from_str(arg'))
           IN  /\ DOMAIN tunnels' = DOMAIN tunnels \cup DOMAIN imported
               /\ \A k \in DOMAIN imported : tunnels'[k] = imported[k]
               /\ \A k \in DOMAIN tunnels \ DOMAIN imported :
                    tunnels'[k] = tunnels[k]
               /\ nsaves' = 1
               /\ pc' = "done" => from_str(store') = Some(tunnels')]_vars

\* C5 witness: an import of a file that holds id 1 has returned after one
\* save, with the imported definition under id 1 and a tunnel the file does
\* not hold still in the registry.
C5_Witness ==
    /\ pc = "done"
    /\ cmd = "import"
    /\ arg = LegacyFile
    /\ nsaves = 1
    /\ tunnels[1].name = "prod"
    /\ 2 \in DOMAIN tunnels

\* C6: import_config of a file that cannot be read reports it and changes
\* nothing: the registry and tunnels.json are as before and save_tunnels is
\* not called.
C6_ImportUnreadableChangesNothing ==
    [][(pc = "menu" /\ cmd' = "import" /\ ~arg'.exists)
        => /\ out' = <<Ev("SourceNotFound", None, None)>>
           /\ tunnels' = tunnels
           /\ store' = store
           /\ nsaves' = 0
           /\ pc' = "done"]_vars

\* C6 witness: an import of an unreadable file has returned while the
\* registry holds tunnels.
C6_Witness ==
    /\ pc = "done"
    /\ cmd = "import"
    /\ ~arg.exists
    /\ Reported("SourceNotFound")
    /\ tunnels # <<>>

\* C7: load_tunnels on a tunnels.json that is present but malformed reports
\* CorruptStore and does not go on with an empty registry.
C7_CorruptStoreFails ==
    (cmd = "load" /\ store.exists /\ from_str(store) = None)
        => Reported("CorruptStore") /\ ~Reported("Loaded")

\* C8: a save is all or nothing: whenever save_tunnels has run, tunnels.json
\* holds its previous content or the complete new registry.
C8_SaveAllOrNothing ==
    [][nsaves' = nsaves + 1
        => store' = store \/ from_str(store') = Some(tunnels')]_vars

\* Number of connection attempts the sweep has started for an id: the
\* announcements of load_tunnels followed by that of connect_tunnel.
SweepStarts(id) ==
    Cardinality({i \in 1..(Len(out) - 1) :
                    /\ out[i] = Ev("AutoConnect", Some(id), None)
                    /\ out[i + 1].kind = "AttemptStarted"})

C10_SweepSurvivesFailures ==
    (cmd = "load" /\ att.st # "None") => pc # "panicked"

\* The definition under attempt asks for key authentication and names no key.
KeyAuthWithoutPath(a) ==
    /\ a.st # "None"
    /\ tunnels[a.id].use_key_auth
    /\ tunnels[a.id].key_path = None

\* The messages of the attempt under way: those after its announcement.
AttemptReports ==
    LET starts == {i \in 1..Len(out) : out[i].kind = "AttemptStarted"}
    IN  IF starts = {} THEN <<>>
        ELSE LET last == CHOOSE i \in starts : \A j \in starts : j <= i
             IN  SubSeq(out, last + 1, Len(out))

\* C11: an attempt on a definition with use_key_auth and no key_path never
\* authenticates, never prompts and never succeeds; once the handshake has
\* completed its next step ends it in Failed(MissingKeyPath) with the
\* MissingKeyPath report.
C11_MissingKeyPathFails ==
    [][KeyAuthWithoutPath(att')
        => /\ att'.st \notin {"Authenticating", "Succeeded"}
           /\ ~att'.waiting
           /\ \A i \in 1..Len(AttemptReports') :
                AttemptReports'[i].kind # "Prompt"
           /\ (att.st = "Handshaking" /\ att' # att)
                => /\ att' = [att EXCEPT !.st = "Failed",
                                         !.why = "MissingKeyPath"]
                   /\ out' = out \o
                             <<Ev("MissingKeyPath", Some(att.id), None)>>
                   /\ pc' = "attempts"]_vars

\* C11 witness: an attempt on a key-authenticated definition without a key
\* path has ended in Failed(MissingKeyPath).
C11_Witness ==
    /\ KeyAuthWithoutPath(att)
    /\ att.st = "Failed"
    /\ att.why = "MissingKeyPath"
    /\ Reported("MissingKeyPath")

\* C12: an attempt on a definition with a saved password never prompts, in a
\* manual connect, in connect_all and in the sweep of load_tunnels alike; the
\* operator is prompted only for a definition with password authentication
\* and no saved password, and only once the handshake has completed.
C12_PromptOnlyWithoutSavedPassword ==
    /\ (att.st # "None" /\ tunnels[att.id].saved_password # None)
        => /\ ~att.waiting
           /\ \A i \in 1..Len(AttemptReports) :
                AttemptReports[i].kind # "Prompt"
    /\ (att.waiting \/ (out # <<>> /\ out[Len(out)].kind = "Prompt"))
        => /\ att.st = "Authenticating"
           /\ ~tunnels[att.id].use_key_auth
           /\ tunnels[att.id].saved_password = None
    /\ \A i \in 1..Len(out) :
        out[i].kind = "Prompt" => i > 1 /\ out[i - 1].kind = "AttemptStarted"

\* C12 witness: the sweep of load_tunnels has authenticated a definition
\* with a saved password.
C12_Witness ==
    /\ cmd = "load"
    /\ att.st = "Succeeded"
    /\ ~tunnels[att.id].use_key_auth
    /\ tunnels[att.id].saved_password # None

\* C13: a failed connection attempt is a reported outcome and never stops
\* the process: the process is never stopped with an attempt under way; a
\* failed handshake in particular ends the attempt in Failed and the next
\* command is awaited.
C13_AttemptFailureNotFatal ==
    pc = "panicked" => att.st \in Terminal \cup {"None"}

\* The reports that end an attempt.
TerminalReports ==
    {"Succeeded", "NetworkError", "HandshakeError", "MissingKeyPath",
     "AuthError"}

\* C14: an attempt that has reached Succeeded or Failed has emitted exactly
\* one terminal report, its last message, and that report carries both the
\* id and the hostname of the definition attempted.
C14_TerminalReportCarriesIdAndHostname ==
    att.st \in Terminal
        => LET r == AttemptReports
           IN  /\ Cardinality({i \in 1..Len(r) :
                                r[i].kind \in TerminalReports}) = 1
               /\ r[Len(r)].kind \in TerminalReports
               /\ r[Len(r)].id = Some(att.id)
               /\ r[Len(r)].hostname = Some(tunnels[att.id].hostname)

\* C15: every definition in the registry has a timeout above zero, however
\* it entered the registry.
C15_TimeoutPositive ==
    \A k \in DOMAIN tunnels : tunnels[k].timeout > 0

\* C16: every add keeps what the registry holds and inserts the definition
\* under its id only if that id is new, so the first definition added under
\* an id stays; and list shows the registry, one line per entry.  From the
\* empty registry a sequence of adds therefore leaves one entry per distinct
\* id added, holding the first definition added under it, and nothing else.
C16_AddsKeepFirstPerId ==
    [][/\ (pc = "menu" /\ cmd' = "add")
            => /\ DOMAIN tunnels' = DOMAIN tunnels \cup {arg'.id}
               /\ \A k \in DOMAIN tunnels : tunnels'[k] = tunnels[k]
               /\ arg'.id \notin DOMAIN tunnels => tunnels'[arg'.id] = arg'
       /\ (pc = "menu" /\ cmd' = "list")
            => /\ tunnels' = tunnels
               /\ IF tunnels = <<>>
                  THEN out' = <<Ev("NoTunnels", None, None)>>
                  ELSE /\ Len(out') = Cardinality(DOMAIN tunnels)
                       /\ \A k \in DOMAIN tunnels :
                            \E i \in 1..Len(out') :
                                out'[i] = Ev("Listed", Some(k),
                                             Some(tunnels[k].hostname))]_vars

\* C16 witness: list has shown a registry of two entries, each under the id
\* of its definition.
C16_Witness ==
    /\ pc = "done"
    /\ cmd = "list"
    /\ Len(out) = 2
    /\ \A k \in DOMAIN tunnels : tunnels[k].id = k
    /\ tunnels[1].name # tunnels[2].name

\* The states of an attempt that is under way, and their order.
InProgress == {"Idle", "Connecting", "Handshaking", "Authenticating"}

Rank(st) ==
    CASE st = "Idle" -> 1
      [] st = "Connecting" -> 2
      [] st = "Handshaking" -> 3
      [] st = "Authenticating" -> 4
      [] st \in Terminal -> 5
      [] OTHER -> 0

\* C17: an attempt is a linear pipeline.  While it is under way every step
\* of the program is a step of this attempt that moves it to a later state
\* (or takes the password in Authenticating), never back and never out of
\* the pipeline, so that it ends in Succeeded or Failed; once it is there it
\* takes no further step.
C17_LinearPipeline ==
    [][/\ (pc = "attempts" /\ att.st \in InProgress)
            => /\ pc' = "attempts"
               /\ att'.id = att.id
               /\ IF att.waiting
                  THEN att' = [att EXCEPT !.waiting = FALSE]
                  ELSE Rank(att'.st) > Rank(att.st)
       /\ att.st \in Terminal
            => att' = att \/ att'.st \in {"Idle", "None"}]_vars

\* C18: a TCP connect that times out or is refused ends the attempt in
\* Failed(NetworkError) with one report that carries the hostname; the
\* attempt takes no later step, so no handshake, no authentication and no
\* prompt happens for it.
C18_ConnectFailureEndsAttempt ==
    [][/\ (pc = "attempts" /\ att.st = "Idle" /\ att' # att)
            => \/ att' = [att EXCEPT !.st = "Connecting"] /\ out' = out
               \/ /\ att' = [att EXCEPT !.st = "Failed",
                                         !.why = "NetworkError"]
                  /\ out' = out \o
                            <<Ev("NetworkError", None,
                                 Some(tunnels[att.id].hostname))>>
                  /\ pc' = "attempts"
       /\ Len(out') > Len(out) /\ out'[Len(out')].kind = "NetworkError"
            => att'.st = "Failed" /\ att'.why = "NetworkError"
       /\ (att.st = "Failed" /\ att.why = "NetworkError")
            => \/ att' = att /\ (pc' = "attempts" => out' = out)
               \/ att'.st \in {"Idle", "None"}]_vars

\* C18 witness: an attempt on a definition with a timeout above zero has
\* ended in Failed(NetworkError), its report the only message since the
\* attempt was announced.
C18_Witness ==
    /\ att.st = "Failed"
    /\ att.why = "NetworkError"
    /\ tunnels[att.id].timeout > 0
    /\ AttemptReports =
        <<Ev("NetworkError", None, Some(tunnels[att.id].hostname))>>

\* C19: every entry of the registry is stored under the id of its
\* definition, after any sequence of add, remove, load and import.
C19_KeyEqualsId ==
    \A k \in DOMAIN tunnels : tunnels[k].id = k

\* A step of list, search, connect-one, connect-all, or of the attempts of
\* one of the connect loops (the sweep of load_tunnels included).
ReadOnlyStep ==
    \/ pc = "menu" /\ cmd' \in {"list", "search", "connect", "connect_all"}
    \/ pc = "attempts"

\* connect-one on an absent id reports NotFound and starts no attempt.
AbsentIdReportsNotFound ==
    /\ (cmd' = "connect" /\ arg' \notin DOMAIN tunnels') => att'.st = "None"
    /\ (pc = "attempts" /\ cmd = "connect" /\ arg \notin DOMAIN tunnels
          /\ pending # {})
        => /\ out' = <<Ev("NotFound", Some(arg), None)>>
           /\ pending' = {}

\* C20 as stated: list, search, export, connect-one, connect-all and the
\* sweep never change the registry or tunnels.json, whatever the attempts
\* come to; connect-one on an absent id reports NotFound and starts no
\* attempt.
C20_ReadOnlyOpsChangeNothing ==
    [][/\ (ReadOnlyStep \/ (pc = "menu" /\ cmd' = "export"))
            => tunnels' = tunnels /\ store' = store /\ nsaves' = nsaves
       /\ AbsentIdReportsNotFound]_vars

\* C20 amended: list, search, connect-one, connect-all and the sweep never
\* change the registry or tunnels.json; export never changes the registry
\* and calls no save, and it leaves tunnels.json alone unless tunnels.json is
\* the file it was told to write; connect-one on an absent id reports
\* NotFound and starts no attempt.
C20_ReadOnlyExceptExportToStore ==
    [][/\ ReadOnlyStep
            => tunnels' = tunnels /\ store' = store /\ nsaves' = nsaves
       /\ (pc = "menu" /\ cmd' = "export")
            => /\ tunnels' = tunnels
               /\ nsaves' = nsaves
               /\ arg' # StorePath => store' = store
       /\ AbsentIdReportsNotFound]_vars

\* C20 witness: an export to another file has returned and tunnels.json
\* still holds the registry, which is not empty.
C20_Witness ==
    /\ pc = "done"
    /\ cmd = "export"
    /\ arg # StorePath
    /\ tunnels # <<>>
    /\ store.fmt = "compact"
    /\ from_str(store) = Some(tunnels)
====
